---- MODULE Spec2Model ----
(***************************************************************************)
(* A model of the request handlers of app/dashboard/views.py: the interest *)
(* claims on bounties (new_interest, remove_interest, uninterested), the   *)
(* tool votes (vote_tool_up, vote_tool_down), the coin redemption          *)
(* (redeem_coin) and the blockchain sync retry loop (sync_web3).           *)
(*                                                                         *)
(* The relational tables the handlers read and write are the state.  Each  *)
(* handler is one action, except where two requests can overlap between a  *)
(* handler's read and its write: new_interest and redeem_coin are split at *)
(* that point so that the overlap is a behaviour of the model.             *)
(***************************************************************************)
EXTENDS Integers, FiniteSets, Sequences, Bags, TLC

\* ------------------------------------------------------------------------
\* Bounds of the model
\* ------------------------------------------------------------------------
\* Interest rows ever created (the auto-increment primary key stops here).
MaxInterests == 3
\* new_interest requests that may be between their checks and their insert.
MaxInflight == 2
\* Threads serving redeem_coin requests at the same time.
NumWorkers == 2
\* Transactions sendRawTransaction may send.
MaxTransfers == 4
\* Interest rows ever created when requests are handled one at a time.
MaxSerialInterests == 4

\* ------------------------------------------------------------------------
\* Values shared by the handlers
\* ------------------------------------------------------------------------
\* request.session.get('profile_id') when the session has none.
NoProfile == 0
\* request.GET.get('token') when the query string has none.
NoToken == 0
\* A token is_github_token_valid rejects.
BadToken == -1
\* The Profile table: primary keys.  A valid token is named by the profile
\* its github login resolves to.
Profiles == {1, 2}
SessionProfiles == Profiles \cup {NoProfile}
Tokens == Profiles \cup {NoToken, BadToken}
\* What a request carries to identify its user: <<session profile_id, token>>.
\* No session, a session, a token alone (absent, rejected or valid), and a
\* valid token that replaces the session's profile.
Credentials ==
    {<<NoProfile, NoToken>>, <<NoProfile, BadToken>>, <<1, NoToken>>, <<2, NoToken>>,
     <<NoProfile, 1>>, <<1, 2>>}
\* A key of the JSON body that is not present.
Absent == "<absent>"

\* HTTP status codes of the responses.
HTTP_OK == 200
HTTP_UNAUTHORIZED == 401
HTTP_NOT_FOUND == 404
HTTP_SERVER_ERROR == 500

AuthError == "You must be authenticated via github to use this feature!"
MaxIssuesError == "You may only work on max of 3 issues at once."
AlreadyInterestedError == "You have already expressed interest in this bounty!"
BountyMissingError == "Bounty doesn't exist!"
NotInterestedError == "You haven't expressed interest on this bounty."
UninterestedAuthError == "You must be authenticated!"
OnlyFundersError == "Only bounty funders are allowed to remove users!"
PartyNotInterestedError == "Party haven't expressed interest on this bounty."

\* ------------------------------------------------------------------------
\* State
\* ------------------------------------------------------------------------
\* Interest claims
VARIABLES
    bounties,      \* Bounty table: pk -> [idx_status, current_bounty, funder]
    interests,     \* Interest table: set of [id, profile_id, created]
    interested,    \* bounty.interested link table: set of <<bounty pk, interest id>>
    next_pk,       \* next primary key (and creation time) of an Interest row
    user_actions,  \* UserAction table: a bag of [profile, action, interest_pk]
    pending,       \* new_interest requests past their checks: a bag of <<profile, bounty>>
    resp           \* the response of the handler that ran last, until it is sent

\* Tool votes
VARIABLES
    tool_votes,    \* ToolVote table: set of [id, profile_id, value]
    votes,         \* tool.votes link table: set of <<tool pk, vote id>>
    next_vote_pk,  \* next primary key of a ToolVote row
    vote_resp      \* the response of the vote handler that ran last, until it is sent

\* Coin redemption
VARIABLES
    coin_requests, \* CoinRedemptionRequest table: set of [coin_redemption, txid, txaddress]
    broadcast,     \* the transactions sendRawTransaction has sent, in order
    redeem         \* the redeem_coin requests being served: worker -> its position

\* Blockchain sync
VARIABLES
    sync           \* the sync_web3 request being served: its locals and position

interest_vars == <<bounties, interests, interested, next_pk, user_actions, pending, resp>>
vote_vars == <<tool_votes, votes, next_vote_pk, vote_resp>>
redeem_vars == <<coin_requests, broadcast, redeem>>
sync_vars == <<sync>>

vars == <<interest_vars, vote_vars, redeem_vars, sync_vars>>

\* ------------------------------------------------------------------------
\* Interest claims
\* ------------------------------------------------------------------------
\* Primary keys of the Bounty table, and one that no Bounty has.
Bounties == {1, 2, 3, 4}
MissingBounty == 9
BountyIds == Bounties \cup {MissingBounty}

\* The Bounty rows the handlers run against: three active bounties (so that
\* the cap of three can be reached) and a fourth that is not active, either
\* because of its status or because it is not the current revision.
BountyFixtures ==
    { [b \in Bounties |->
         CASE b = 1 -> [idx_status |-> "open", current_bounty |-> TRUE, funder |-> 1]
           [] b = 2 -> [idx_status |-> "started", current_bounty |-> TRUE, funder |-> 2]
           [] b = 3 -> [idx_status |-> "open", current_bounty |-> TRUE, funder |-> 1]
           [] OTHER -> last] :
      last \in { [idx_status |-> "done", current_bounty |-> TRUE, funder |-> 2],
                 [idx_status |-> "open", current_bounty |-> FALSE, funder |-> 2] } }

\* The Bounty rows for requests handled one at a time: four bounties that
\* are all active, so that a profile could hold a fourth active claim.
SerialBountyFixtures ==
    { [b \in Bounties |->
         CASE b = 1 -> [idx_status |-> "open", current_bounty |-> TRUE, funder |-> 1]
           [] b = 2 -> [idx_status |-> "started", current_bounty |-> TRUE, funder |-> 2]
           [] b = 3 -> [idx_status |-> "open", current_bounty |-> TRUE, funder |-> 1]
           [] OTHER -> [idx_status |-> "started", current_bounty |-> TRUE, funder |-> 2]] }

\* A response: the handler, the HTTP status, the keys of the JSON body and the
\* number of Interest rows the handler's delete() calls removed.
NoResp ==
    [handler |-> "none", status |-> 0, error |-> Absent, errors |-> Absent,
     success |-> Absent, profile |-> NoProfile, deleted |-> 0]

Response(handler, status, error, errors, success, profile, deleted) ==
    [handler |-> handler, status |-> status, error |-> error, errors |-> errors,
     success |-> success, profile |-> profile, deleted |-> deleted]

\* if access_token and is_github_token_valid(access_token):
\*     helper_handle_access_token(request, access_token)
\* profile_id = request.session.get('profile_id')
helper_handle_access_token(session_profile_id, token) ==
    IF token \in Profiles THEN token ELSE session_profile_id

\* A handler that never checks the session.
authenticated_unchecked(profile_id) == TRUE

\* if not profile_id: return JsonResponse({'error': ...}, status=401)
authenticated(profile_id) == profile_id # NoProfile

\* num_issues = 3
num_issues == 3

\* The filter with 'started' left out.
active_bounties_open_only ==
    { b \in Bounties : bounties[b].current_bounty /\ bounties[b].idx_status = "open" }

\* Bounty.objects.current().filter(idx_status__in=['open', 'started'])
active_bounties ==
    { b \in Bounties :
        bounties[b].current_bounty /\ bounties[b].idx_status \in {"open", "started"} }

\* The count without the filter on the bounties: every row of the profile.
num_active_any_bounty(profile_id) ==
    Cardinality({ l \in interested :
                    \E i \in interests : i.id = l[2] /\ i.profile_id = profile_id })

\* Interest.objects.filter(profile_id=profile_id, bounty__in=active_bounties).count()
num_active(profile_id) ==
    Cardinality({ l \in interested :
                    /\ l[1] \in active_bounties
                    /\ \E i \in interests : i.id = l[2] /\ i.profile_id = profile_id })

\* The lookup with the profile's key given as the row's own key (pk=profile_id).
InterestsOf_by_pk(profile_id, bounty) ==
    { i \in interests : i.id = profile_id /\ <<bounty, i.id>> \in interested }

\* Interest.objects.filter(profile_id=profile_id, bounty=bounty), also
\* bounty.interested.filter(profile_id=profile_id)
InterestsOf(profile_id, bounty) ==
    { i \in interests : i.profile_id = profile_id /\ <<bounty, i.id>> \in interested }

\* .order_by('created')[1:] : every row but the one created first
AllButOldest(rows) ==
    { i \in rows : \E j \in rows : j.created < i.created }

\* .order_by('-created')[1:] : every row but the one created last
AllButNewest(rows) ==
    { i \in rows : \E j \in rows : j.created > i.created }

\* A delete that removes one row only, the one created last.
DeleteNewestOnly(rows) ==
    LET gone == { i \in rows : \A j \in rows : j.created <= i.created } IN
    /\ interests' = interests \ gone
    /\ interested' = { l \in interested : \A i \in gone : l[2] # i.id }

\* Interest.objects.filter(pk__in=ids).delete(): the rows go, and with them
\* their rows in the link table.
DeleteInterests(rows) ==
    /\ interests' = interests \ rows
    /\ interested' = { l \in interested : \A i \in rows : l[2] # i.id }

\* record_user_action(profile_handle, event_name, instance)
record_user_action(profile_id, event_name, interest_pk) ==
    user_actions' = user_actions (+) SetToBag({
        [profile |-> profile_id, action |-> event_name, interest_pk |-> interest_pk]})

\* The requests between their checks and their insert.
PendingCount == BagCardinality(pending)

\* new_interest up to the lookup of an existing Interest: every return but the
\* successful one.  A request that finds no Interest goes on to
\* new_interest_create.
new_interest(session_profile_id, token, bounty_id) ==
    LET profile_id == helper_handle_access_token(session_profile_id, token) IN
    /\ resp = NoResp
    /\ IF ~authenticated(profile_id) THEN
          /\ resp' = Response("new_interest", HTTP_UNAUTHORIZED, AuthError, Absent, Absent, NoProfile, 0)
          /\ UNCHANGED <<bounties, interests, interested, next_pk, user_actions, pending>>
       ELSE IF bounty_id \notin Bounties THEN
          /\ resp' = Response("new_interest", HTTP_NOT_FOUND, Absent, Absent, Absent, NoProfile, 0)
          /\ UNCHANGED <<bounties, interests, interested, next_pk, user_actions, pending>>
       ELSE IF num_active(profile_id) >= num_issues THEN
          /\ resp' = Response("new_interest", HTTP_UNAUTHORIZED, MaxIssuesError, Absent, "false", NoProfile, 0)
          /\ UNCHANGED <<bounties, interests, interested, next_pk, user_actions, pending>>
       ELSE IF Cardinality(InterestsOf(profile_id, bounty_id)) = 1 THEN
          /\ resp' = Response("new_interest", HTTP_UNAUTHORIZED, AlreadyInterestedError, Absent, "false", NoProfile, 0)
          /\ UNCHANGED <<bounties, interests, interested, next_pk, user_actions, pending>>
       ELSE IF Cardinality(InterestsOf(profile_id, bounty_id)) > 1 THEN
          /\ DeleteInterests(AllButNewest(InterestsOf(profile_id, bounty_id)))
          /\ resp' = Response("new_interest", HTTP_UNAUTHORIZED, AlreadyInterestedError, Absent, "false", NoProfile,
                             Cardinality(AllButNewest(InterestsOf(profile_id, bounty_id))))
          /\ UNCHANGED <<bounties, next_pk, user_actions, pending>>
       ELSE
          /\ PendingCount < MaxInflight
          /\ next_pk + PendingCount <= MaxInterests
          /\ pending' = pending (+) SetToBag({<<profile_id, bounty_id>>})
          /\ UNCHANGED <<bounties, interests, interested, next_pk, user_actions, resp>>

\* new_interest from Interest.DoesNotExist on: the insert, the link, the
\* UserAction and the successful response.
\* interest = Interest.objects.create(profile_id=profile_id)
\* bounty.interested.add(interest)
\* record_user_action(..., 'start_work', interest)
\* return JsonResponse({'success': True, 'profile': ...})
create_interest(profile_id, bounty_id) ==
    /\ interests' = interests \cup
          {[id |-> next_pk, profile_id |-> profile_id, created |-> next_pk]}
    /\ interested' = interested \cup {<<bounty_id, next_pk>>}
    /\ next_pk' = next_pk + 1
    /\ record_user_action(profile_id, "start_work", next_pk)
    /\ resp' = Response("new_interest", HTTP_OK, Absent, Absent, "true", profile_id, 0)
    /\ UNCHANGED bounties

new_interest_create(profile_id, bounty_id) ==
    /\ resp = NoResp
    /\ BagIn(<<profile_id, bounty_id>>, pending)
    /\ pending' = pending (-) SetToBag({<<profile_id, bounty_id>>})
    /\ create_interest(profile_id, bounty_id)

\* new_interest when requests are handled one at a time: the whole handler
\* in one step, the insert included.
new_interest_serial(session_profile_id, token, bounty_id) ==
    LET profile_id == helper_handle_access_token(session_profile_id, token) IN
    /\ pending = EmptyBag
    /\ IF /\ authenticated(profile_id)
          /\ bounty_id \in Bounties
          /\ num_active(profile_id) < num_issues
          /\ InterestsOf(profile_id, bounty_id) = {}
       THEN /\ resp = NoResp
            /\ next_pk <= MaxSerialInterests
            /\ create_interest(profile_id, bounty_id)
            /\ UNCHANGED pending
       ELSE new_interest(session_profile_id, token, bounty_id)

remove_interest(session_profile_id, token, bounty_id) ==
    LET profile_id == helper_handle_access_token(session_profile_id, token)
        found == InterestsOf(profile_id, bounty_id)
    IN
    /\ resp = NoResp
    /\ IF ~authenticated(profile_id) THEN
          /\ resp' = Response("remove_interest", HTTP_UNAUTHORIZED, AuthError, Absent, Absent, NoProfile, 0)
          /\ UNCHANGED <<bounties, interests, interested, next_pk, user_actions, pending>>
       ELSE IF bounty_id \notin Bounties THEN
          /\ resp' = Response("remove_interest", HTTP_UNAUTHORIZED, Absent, BountyMissingError, Absent, NoProfile, 0)
          /\ UNCHANGED <<bounties, interests, interested, next_pk, user_actions, pending>>
       ELSE IF found = {} THEN
          /\ resp' = Response("remove_interest", HTTP_UNAUTHORIZED, Absent, NotInterestedError, "false", NoProfile, 0)
          /\ UNCHANGED <<bounties, interests, interested, next_pk, user_actions, pending>>
       ELSE IF Cardinality(found) = 1 THEN
          /\ record_user_action(profile_id, "stop_work", (CHOOSE i \in found : TRUE).id)
          /\ DeleteInterests(found)
          /\ resp' = Response("remove_interest", HTTP_OK, Absent, Absent, "true", NoProfile,
                             Cardinality(found))
          /\ UNCHANGED <<bounties, next_pk, pending>>
       ELSE
          /\ DeleteInterests(found)
          /\ resp' = Response("remove_interest", HTTP_OK, Absent, Absent, "true", NoProfile,
                             Cardinality(found))
          /\ UNCHANGED <<bounties, next_pk, user_actions, pending>>

\* bounty.is_funder(request.session.get('handle').lower()): the session's
\* handle is the handle of the session's profile, and the bounty row names
\* its funder.
is_funder(bounty_id, session_profile_id) ==
    bounties[bounty_id].funder = session_profile_id

\* uninterested from the lookup of the party's Interest on.
uninterested_remove(bounty_id, profile_id) ==
    LET found == InterestsOf(profile_id, bounty_id) IN
    IF found = {} THEN
       /\ resp' = Response("uninterested", HTTP_UNAUTHORIZED, Absent, PartyNotInterestedError, "false", NoProfile, 0)
       /\ UNCHANGED <<bounties, interests, interested, next_pk, user_actions, pending>>
    ELSE IF Cardinality(found) = 1 THEN
       /\ DeleteInterests(found)
       /\ resp' = Response("uninterested", HTTP_OK, Absent, Absent, "true", NoProfile,
                          Cardinality(found))
       /\ UNCHANGED <<bounties, next_pk, user_actions, pending>>
    ELSE
       \* Interest.MultipleObjectsReturned: the rows are deleted, then
       \* bounty_uninterested(profile.email, bounty, interest) reads the
       \* local `interest`, which this path never bound.
       /\ DeleteInterests(found)
       /\ resp' = Response("uninterested", HTTP_SERVER_ERROR, Absent, Absent, Absent, NoProfile,
                          Cardinality(found))
       /\ UNCHANGED <<bounties, next_pk, user_actions, pending>>

\* The handler without its test of the funder.
uninterested_funder_unchecked(session_profile_id, bounty_id, profile_id) ==
    /\ resp = NoResp
    /\ IF ~authenticated(session_profile_id) THEN
          /\ resp' = Response("uninterested", HTTP_UNAUTHORIZED, UninterestedAuthError, Absent, Absent, NoProfile, 0)
          /\ UNCHANGED <<bounties, interests, interested, next_pk, user_actions, pending>>
       ELSE IF bounty_id \notin Bounties THEN
          /\ resp' = Response("uninterested", HTTP_UNAUTHORIZED, Absent, BountyMissingError, Absent, NoProfile, 0)
          /\ UNCHANGED <<bounties, interests, interested, next_pk, user_actions, pending>>
       ELSE uninterested_remove(bounty_id, profile_id)

uninterested(session_profile_id, bounty_id, profile_id) ==
    /\ resp = NoResp
    /\ IF ~authenticated(session_profile_id) THEN
          /\ resp' = Response("uninterested", HTTP_UNAUTHORIZED, UninterestedAuthError, Absent, Absent, NoProfile, 0)
          /\ UNCHANGED <<bounties, interests, interested, next_pk, user_actions, pending>>
       ELSE IF bounty_id \notin Bounties THEN
          /\ resp' = Response("uninterested", HTTP_UNAUTHORIZED, Absent, BountyMissingError, Absent, NoProfile, 0)
          /\ UNCHANGED <<bounties, interests, interested, next_pk, user_actions, pending>>
       ELSE IF ~is_funder(bounty_id, session_profile_id) THEN
          /\ resp' = Response("uninterested", HTTP_UNAUTHORIZED, OnlyFundersError, Absent, Absent, NoProfile, 0)
          /\ UNCHANGED <<bounties, interests, interested, next_pk, user_actions, pending>>
       ELSE uninterested_remove(bounty_id, profile_id)

\* The response leaves the server; the next request can be handled.
send_response ==
    /\ resp # NoResp
    /\ resp' = NoResp
    /\ UNCHANGED <<bounties, interests, interested, next_pk, user_actions, pending>>

\* ------------------------------------------------------------------------
\* Tool votes
\* ------------------------------------------------------------------------
\* Primary keys of the Tool table, and one that no Tool has.
Tools == {1, 2}
MissingTool == 9
ToolIds == Tools \cup {MissingTool}

AlreadyVotedError == "You have already voted on this tool!"

NoVoteResp == [handler |-> "none", status |-> 0, error |-> Absent, success |-> Absent]

VoteResponse(handler, status, error, success) ==
    [handler |-> handler, status |-> status, error |-> error, success |-> success]

\* The lookup with a filter on the value, as toolbox reads the up-votes.
VotesOf_up_only(profile_id, tool) ==
    { v \in tool_votes :
        v.profile_id = profile_id /\ v.value = 1 /\ <<tool, v.id>> \in votes }

\* ToolVote.objects.get(profile_id=profile_id, tool=tool)
VotesOf(profile_id, tool) ==
    { v \in tool_votes : v.profile_id = profile_id /\ <<tool, v.id>> \in votes }

\* vote_tool_up (value = 1) and vote_tool_down (value = -1) differ in the
\* value they store and in nothing else.
vote_tool(handler, value, session_profile_id, token, tool_id) ==
    LET profile_id == helper_handle_access_token(session_profile_id, token) IN
    /\ vote_resp = NoVoteResp
    /\ IF tool_id \notin Tools THEN
          \* tool = Tool.objects.get(pk=tool_id): Tool.DoesNotExist is not caught
          /\ vote_resp' = VoteResponse(handler, HTTP_SERVER_ERROR, Absent, Absent)
          /\ UNCHANGED <<tool_votes, votes, next_vote_pk>>
       ELSE IF ~authenticated(profile_id) THEN
          /\ vote_resp' = VoteResponse(handler, HTTP_UNAUTHORIZED, AuthError, Absent)
          /\ UNCHANGED <<tool_votes, votes, next_vote_pk>>
       ELSE IF Cardinality(VotesOf(profile_id, tool_id)) = 1 THEN
          /\ vote_resp' = VoteResponse(handler, HTTP_UNAUTHORIZED, AlreadyVotedError, "false")
          /\ UNCHANGED <<tool_votes, votes, next_vote_pk>>
       ELSE IF Cardinality(VotesOf(profile_id, tool_id)) > 1 THEN
          \* ToolVote.MultipleObjectsReturned is not caught
          /\ vote_resp' = VoteResponse(handler, HTTP_SERVER_ERROR, Absent, Absent)
          /\ UNCHANGED <<tool_votes, votes, next_vote_pk>>
       ELSE
          /\ tool_votes' = tool_votes \cup
                {[id |-> next_vote_pk, profile_id |-> profile_id, value |-> value]}
          /\ votes' = votes \cup {<<tool_id, next_vote_pk>>}
          /\ next_vote_pk' = next_vote_pk + 1
          /\ vote_resp' = VoteResponse(handler, HTTP_OK, Absent, "true")

vote_tool_up(session_profile_id, token, tool_id) ==
    vote_tool("vote_tool_up", 1, session_profile_id, token, tool_id)

vote_tool_down(session_profile_id, token, tool_id) ==
    vote_tool("vote_tool_down", -1, session_profile_id, token, tool_id)

\* The response leaves the server; the next vote can be handled.
send_vote_response ==
    /\ vote_resp # NoVoteResp
    /\ vote_resp' = NoVoteResp
    /\ UNCHANGED <<tool_votes, votes, next_vote_pk>>

\* ------------------------------------------------------------------------
\* Coin redemption
\* ------------------------------------------------------------------------
\* Shortcodes of the CoinRedemption table, and one that no row has.
Coins == {1, 2}
MissingCoin == 9
Shortcodes == Coins \cup {MissingCoin}

\* body['address'] of a POST: absent from the body, not an address, an
\* address in lower case, and the same address in checksum case.
NoAddress == "<absent>"
Addresses == {NoAddress, "zz", "0xab", "0xAb"}

\* The threads serving redeem_coin requests.
Workers == 1..NumWorkers

BadRequestMessage == "Bad request"
InvalidAddressMessage == "invalid address"
SendFailedMessage == "transaction failed"
IntegrityErrorMessage == "duplicate key: coin_redemption"

\* message = transaction_id: the message of a successful POST is the id of
\* the transaction, kept in the response's txid.
TransactionIdMessage == "<transaction_id>"

NoRedeemResp ==
    [kind |-> "none", status |-> Absent, message |-> Absent, txid |-> 0,
     coin_status |-> Absent, colo_txid |-> 0]

\* JsonResponse({'status': status, 'message': message})
RedeemJson(status, message, txid) ==
    [kind |-> "json", status |-> status, message |-> message, txid |-> txid,
     coin_status |-> Absent, colo_txid |-> 0]

\* TemplateResponse(request, 'yge/redeem_coin.html', params)
RedeemPage(coin_status, colo_txid) ==
    [kind |-> "html", status |-> Absent, message |-> Absent, txid |-> 0,
     coin_status |-> coin_status, colo_txid |-> colo_txid]

\* An exception no handler code catches, or Http404.
RedeemHttpError(code) ==
    [kind |-> code, status |-> Absent, message |-> Absent, txid |-> 0,
     coin_status |-> Absent, colo_txid |-> 0]

IdleWorker == [pc |-> "idle", shortcode |-> 0, address |-> NoAddress, txid |-> 0,
               resp |-> NoRedeemResp]

\* Web3.toChecksumAddress(address): the address in checksum case; raises on
\* what is not an address.
IsAddress_any(address) == TRUE
IsAddress(address) == address \in {"0xab", "0xAb"}
toChecksumAddress(address) == IF address = "0xab" THEN "0xAb" ELSE address

\* The attribute looked up under a name the model does not have.
hasattr_misspelt(shortcode) == FALSE

\* hasattr(coin, 'coinredemptionrequest'): the coin's one-to-one request row
hasattr_coinredemptionrequest(shortcode) ==
    \E r \in coin_requests : r.coin_redemption = shortcode

\* The transactions sent for a shortcode.
TransfersOf(shortcode) ==
    { i \in 1..Len(broadcast) : broadcast[i].shortcode = shortcode }

\* redeem_coin, request.body present, up to the check for an existing request
\* row: the body is read, the coin looked up, the address checked.
redeem_coin_post(w, shortcode, address) ==
    /\ redeem[w].pc = "idle"
    /\ IF address = NoAddress THEN
          \* address = body['address'] is outside the try: KeyError
          redeem' = [redeem EXCEPT ![w] =
              [@ EXCEPT !.pc = "done", !.shortcode = shortcode, !.address = address,
                        !.resp = RedeemHttpError("http500")]]
       ELSE IF shortcode \notin Coins THEN
          redeem' = [redeem EXCEPT ![w] =
              [@ EXCEPT !.pc = "done", !.shortcode = shortcode, !.address = address,
                        !.resp = RedeemJson("error", BadRequestMessage, 0)]]
       ELSE IF ~IsAddress(address) THEN
          redeem' = [redeem EXCEPT ![w] =
              [@ EXCEPT !.pc = "done", !.shortcode = shortcode, !.address = address,
                        !.resp = RedeemJson("error", InvalidAddressMessage, 0)]]
       ELSE IF hasattr_coinredemptionrequest(shortcode) THEN
          redeem' = [redeem EXCEPT ![w] =
              [@ EXCEPT !.pc = "done", !.shortcode = shortcode,
                        !.address = toChecksumAddress(address),
                        !.resp = RedeemJson("error", BadRequestMessage, 0)]]
       ELSE
          redeem' = [redeem EXCEPT ![w] =
              [@ EXCEPT !.pc = "build", !.shortcode = shortcode,
                        !.address = toChecksumAddress(address)]]
    /\ UNCHANGED <<coin_requests, broadcast>>

\* redeem_coin from the contract to sendRawTransaction: the transfer is built,
\* signed and sent, or one of these raises.
redeem_coin_send(w, raises) ==
    /\ redeem[w].pc = "build"
    /\ IF raises THEN
          /\ redeem' = [redeem EXCEPT ![w] =
                [@ EXCEPT !.pc = "done", !.resp = RedeemJson("error", SendFailedMessage, 0)]]
          /\ UNCHANGED broadcast
       ELSE
          /\ Len(broadcast) < MaxTransfers
          /\ broadcast' = Append(broadcast,
                [shortcode |-> redeem[w].shortcode, to |-> redeem[w].address,
                 txid |-> Len(broadcast) + 1])
          /\ redeem' = [redeem EXCEPT ![w] =
                [@ EXCEPT !.pc = "sent", !.txid = Len(broadcast) + 1]]
    /\ UNCHANGED coin_requests

\* redeem_coin from CoinRedemptionRequest.objects.create on: the row is
\* inserted, unless the coin already has its one row.
redeem_coin_record(w) ==
    /\ redeem[w].pc = "sent"
    /\ IF \E r \in coin_requests : r.coin_redemption = redeem[w].shortcode THEN
          /\ redeem' = [redeem EXCEPT ![w] =
                [@ EXCEPT !.pc = "done",
                          !.resp = RedeemJson("error", IntegrityErrorMessage, 0)]]
          /\ UNCHANGED coin_requests
       ELSE
          /\ coin_requests' = coin_requests \cup
                {[coin_redemption |-> redeem[w].shortcode, txid |-> redeem[w].txid,
                  txaddress |-> redeem[w].address]}
          /\ redeem' = [redeem EXCEPT ![w] =
                [@ EXCEPT !.pc = "done", !.resp = RedeemJson("OK", TransactionIdMessage, redeem[w].txid)]]
    /\ UNCHANGED broadcast

\* The lookup without its filter: the request rows of every coin.
CoinRedemptionRequestOf_any_coin(shortcode) == coin_requests

\* CoinRedemptionRequest.objects.get(coin_redemption=coin)
CoinRedemptionRequestOf(shortcode) ==
    { r \in coin_requests : r.coin_redemption = shortcode }

\* redeem_coin, request.body empty: the page of the coin.
redeem_coin_get(w, shortcode) ==
    /\ redeem[w].pc = "idle"
    /\ IF shortcode \notin Coins THEN
          redeem' = [redeem EXCEPT ![w] =
              [@ EXCEPT !.pc = "done", !.shortcode = shortcode,
                        !.resp = RedeemHttpError("http404")]]
       ELSE IF CoinRedemptionRequestOf(shortcode) # {} THEN
          redeem' = [redeem EXCEPT ![w] =
              [@ EXCEPT !.pc = "done", !.shortcode = shortcode,
                        !.resp = RedeemPage("PENDING",
                            (CHOOSE r \in CoinRedemptionRequestOf(shortcode) : TRUE).txid)]]
       ELSE
          redeem' = [redeem EXCEPT ![w] =
              [@ EXCEPT !.pc = "done", !.shortcode = shortcode,
                        !.resp = RedeemPage("INITIAL", 0)]]
    /\ UNCHANGED <<coin_requests, broadcast>>

\* The response leaves the server; the worker takes the next request.
send_redeem_response(w) ==
    /\ redeem[w].pc = "done"
    /\ redeem' = [redeem EXCEPT ![w] = IdleWorker]
    /\ UNCHANGED <<coin_requests, broadcast>>

\* ------------------------------------------------------------------------
\* Blockchain sync
\* ------------------------------------------------------------------------
\* request.POST.get(name): None when the parameter is missing, and the empty
\* string is as false as None.
NoParam == "<none>"
UrlParams == {NoParam, "", "https://github.com/o/r/issues/1"}
TxidParams == {NoParam, "", "0xf00d"}
NetworkParams == {NoParam, "", "mainnet", "rinkeby"}
\* A test that every parameter passes.
Truthy_always(param) == TRUE

\* if issue_url and txid and network: None and '' are false
Truthy(param) == param \notin {NoParam, ""}

\* get_bounty_id(issue_url, network): None, or the id of the bounty on chain;
\* the id 0 is as false as None.
NoBountyId == -1
BountyIdResults == {NoBountyId, 0, 5}

\* time.sleep(3)
SleepSeconds == 3

NoResult == [status |-> Absent, msg |-> Absent, did_change |-> Absent]

\* did_change is "true" or "false" once the loop has run.
BoolText(b) == IF b THEN "true" ELSE "false"

IdleSync ==
    [pc |-> "idle", issue_url |-> NoParam, txid |-> NoParam, network |-> NoParam,
     bounty_id |-> NoBountyId, did_change |-> FALSE, max_tries_attempted |-> FALSE,
     counter |-> 0, calls |-> <<>>, slept |-> 0, result |-> NoResult]

\* sync_web3 up to the test of its three parameters.
sync_web3(issue_url, txid, network) ==
    /\ sync.pc = "idle"
    /\ sync' = [sync EXCEPT
          !.issue_url = issue_url, !.txid = txid, !.network = network,
          !.result = [status |-> "400", msg |-> "bad request", did_change |-> Absent],
          !.pc = IF Truthy(issue_url) /\ Truthy(txid) /\ Truthy(network)
                 THEN "has_tx_mined" ELSE "done"]

\* if not has_tx_mined(txid, network)
sync_has_tx_mined(mined) ==
    /\ sync.pc = "has_tx_mined"
    /\ sync' = IF mined
               THEN [sync EXCEPT !.pc = "get_bounty_id"]
               ELSE [sync EXCEPT !.pc = "done",
                       !.result = [status |-> "400", msg |-> "tx has not mined yet",
                                   did_change |-> Absent]]

\* bounty_id = get_bounty_id(issue_url, network), then get_bounty and the
\* loop's locals
sync_get_bounty_id(bounty_id) ==
    /\ sync.pc = "get_bounty_id"
    /\ sync' = IF bounty_id \in {NoBountyId, 0}
               THEN [sync EXCEPT !.pc = "done", !.bounty_id = bounty_id,
                       !.result = [status |-> "400", msg |-> "could not find bounty id",
                                   did_change |-> Absent]]
               ELSE [sync EXCEPT !.pc = "while", !.bounty_id = bounty_id,
                       !.did_change = FALSE, !.max_tries_attempted = FALSE,
                       !.counter = 0]

\* A loop that stops only when the tries are used up.
while_condition_ignores_change(did_change, max_tries_attempted) ==
    ~max_tries_attempted

\* while not did_change and not max_tries_attempted
while_condition(did_change, max_tries_attempted) ==
    ~did_change /\ ~max_tries_attempted

\* The tries are used up one attempt early.
max_tries_early(counter) == counter >= 3

\* max_tries_attempted = counter > 3
max_tries(counter) == counter > 3

\* The test of the while loop; when it fails, the result of the request.
sync_while ==
    /\ sync.pc = "while"
    /\ sync' = IF while_condition(sync.did_change, sync.max_tries_attempted)
               THEN [sync EXCEPT !.pc = "web3_process_bounty"]
               ELSE [sync EXCEPT !.pc = "done",
                       !.result = [status |-> "200", msg |-> "success",
                                   did_change |-> BoolText(sync.did_change)]]

\* did_change, _, _ = web3_process_bounty(bounty)
sync_web3_process_bounty(did_change) ==
    /\ sync.pc = "web3_process_bounty"
    /\ sync' = [sync EXCEPT !.did_change = did_change,
                            !.calls = Append(@, did_change),
                            !.pc = IF did_change THEN "while" ELSE "sleep"]

\* time.sleep(3); counter += 1; max_tries_attempted = counter > 3
sync_sleep ==
    /\ sync.pc = "sleep"
    /\ sync' = [sync EXCEPT !.slept = @ + SleepSeconds,
                            !.counter = @ + 1,
                            !.max_tries_attempted = max_tries(sync.counter + 1),
                            !.pc = "while"]

\* return JsonResponse(result, status=result['status'])
send_sync_response ==
    /\ sync.pc = "done"
    /\ sync' = IdleSync

\* ------------------------------------------------------------------------
\* Specifications
\* ------------------------------------------------------------------------
InterestInit ==
    /\ bounties \in BountyFixtures
    /\ interests = {}
    /\ interested = {}
    /\ next_pk = 1
    /\ user_actions = EmptyBag
    /\ pending = EmptyBag
    /\ resp = NoResp

VoteInit ==
    /\ tool_votes = {}
    /\ votes = {}
    /\ next_vote_pk = 1
    /\ vote_resp = NoVoteResp

RedeemInit ==
    /\ coin_requests = {}
    /\ broadcast = <<>>
    /\ redeem = [w \in Workers |-> IdleWorker]

SyncInit == sync = IdleSync

Init == InterestInit /\ VoteInit /\ RedeemInit /\ SyncInit

InterestNext ==
    /\ \/ \E c \in Credentials, b \in BountyIds : new_interest(c[1], c[2], b)
       \/ \E p \in Profiles, b \in Bounties : new_interest_create(p, b)
       \/ \E c \in Credentials, b \in BountyIds : remove_interest(c[1], c[2], b)
       \/ \E s \in SessionProfiles, b \in BountyIds, p \in Profiles : uninterested(s, b, p)
       \/ send_response
    /\ UNCHANGED <<vote_vars, redeem_vars, sync_vars>>

VoteNext ==
    /\ \/ \E c \in Credentials, t \in ToolIds : vote_tool_up(c[1], c[2], t)
       \/ \E c \in Credentials, t \in ToolIds : vote_tool_down(c[1], c[2], t)
       \/ send_vote_response
    /\ UNCHANGED <<interest_vars, redeem_vars, sync_vars>>

RedeemNext ==
    /\ \/ \E w \in Workers, s \in Shortcodes, a \in Addresses : redeem_coin_post(w, s, a)
       \/ \E w \in Workers, raises \in BOOLEAN : redeem_coin_send(w, raises)
       \/ \E w \in Workers : redeem_coin_record(w)
       \/ \E w \in Workers, s \in Shortcodes : redeem_coin_get(w, s)
       \/ \E w \in Workers : send_redeem_response(w)
    /\ UNCHANGED <<interest_vars, vote_vars, sync_vars>>

SyncNext ==
    /\ \/ \E u \in UrlParams, t \in TxidParams, n \in NetworkParams : sync_web3(u, t, n)
       \/ \E mined \in BOOLEAN : sync_has_tx_mined(mined)
       \/ \E id \in BountyIdResults : sync_get_bounty_id(id)
       \/ sync_while
       \/ \E did_change \in BOOLEAN : sync_web3_process_bounty(did_change)
       \/ sync_sleep
       \/ send_sync_response
    /\ UNCHANGED <<interest_vars, vote_vars, redeem_vars>>

Next == InterestNext \/ VoteNext \/ RedeemNext \/ SyncNext

\* The handlers of one feature touch that feature's tables only, so each
\* feature is checked on its own: the other features' state stays as Init
\* leaves it.
\* The interest handlers with the requests handled one at a time, over
\* bounties whose statuses stay as they are.
SerialInit ==
    /\ bounties \in SerialBountyFixtures
    /\ interests = {}
    /\ interested = {}
    /\ next_pk = 1
    /\ user_actions = EmptyBag
    /\ pending = EmptyBag
    /\ resp = NoResp
    /\ VoteInit /\ RedeemInit /\ SyncInit

SerialNext ==
    /\ \/ \E c \in Credentials, b \in BountyIds : new_interest_serial(c[1], c[2], b)
       \/ \E c \in Credentials, b \in BountyIds : remove_interest(c[1], c[2], b)
       \/ send_response
    /\ UNCHANGED <<vote_vars, redeem_vars, sync_vars>>

SerialSpec == SerialInit /\ [][SerialNext]_vars

InterestSpec == Init /\ [][InterestNext]_vars
VoteSpec == Init /\ [][VoteNext]_vars
RedeemSpec == Init /\ [][RedeemNext]_vars
SyncSpec == Init /\ [][SyncNext]_vars

\* The whole view layer.
Spec == Init /\ [][Next]_vars

\* ------------------------------------------------------------------------
\* Properties of the interest claims
\* ------------------------------------------------------------------------
\* Every step A that can be taken from the current state ends with Q.  A
\* handler runs when no response is waiting to be sent (resp = NoResp).
StepEnsures(A, Q) == ~ ENABLED (A /\ ~Q)

\* The profile a request acts for: the one its valid token names, else the
\* one in its session.
RequestProfile(c) == IF c[2] \in Profiles THEN c[2] ELSE c[1]

\* The Interest rows of a profile on a bounty.
RowsOn(p, b) == { i \in interests : i.profile_id = p /\ <<b, i.id>> \in interested }

\* The Interest rows of a profile on current bounties that are open or started.
ActiveRows(p) ==
    { i \in interests :
        /\ i.profile_id = p
        /\ \E b \in Bounties :
              /\ <<b, i.id>> \in interested
              /\ bounties[b].current_bounty
              /\ bounties[b].idx_status \in {"open", "started"} }

\* C1: a new_interest request of an authenticated profile on an existing
\* bounty is answered 401 with the max-issues error whenever the profile has
\* 3 or more Interest rows on current bounties that are open or started, and
\* then no Interest row is created or linked; with fewer than 3 such rows
\* (rows on bounties in another status do not count) it is never answered
\* with that error.
C1_CapRejects ==
    \A c \in Credentials, b \in Bounties :
       (resp = NoResp /\ RequestProfile(c) # NoProfile) =>
          IF Cardinality(ActiveRows(RequestProfile(c))) >= 3
          THEN /\ ENABLED new_interest(c[1], c[2], b)
               /\ StepEnsures(new_interest(c[1], c[2], b),
                     /\ resp'.status = 401
                     /\ resp'.error = MaxIssuesError
                     /\ interests' = interests
                     /\ interested' = interested
                     /\ pending' = pending)
          ELSE StepEnsures(new_interest(c[1], c[2], b), resp'.error # MaxIssuesError)

\* C1 witness: the max-issues rejection has been given to a profile that has
\* three active rows.
C1_Witness ==
    /\ resp.handler = "new_interest"
    /\ resp.error = MaxIssuesError
    /\ \E p \in Profiles : Cardinality(ActiveRows(p)) >= 3

\* C2 as stated: a profile that holds an Interest on a bounty and calls
\* new_interest for it again is always answered 401 with the
\* already-expressed error, and no row is added.
C2_AlwaysAlreadyInterested ==
    [][\A c \in Credentials, b \in Bounties :
         (/\ RequestProfile(c) # NoProfile
          /\ RowsOn(RequestProfile(c), b) # {}
          /\ new_interest(c[1], c[2], b)) =>
            /\ resp'.status = 401
            /\ resp'.error = AlreadyInterestedError
            /\ interests' \subseteq interests
      ]_vars

\* C2 amended: a profile that holds an Interest on a bounty and calls
\* new_interest for it again is answered 401 and no row is added (nor will
\* one be: the request does not go on to the insert); the error is the
\* already-expressed one when the profile has fewer than 3 active rows and
\* the max-issues one when it has 3 or more.
C2_DuplicateRejected ==
    \A c \in Credentials, b \in Bounties :
       (/\ resp = NoResp
        /\ RequestProfile(c) # NoProfile
        /\ RowsOn(RequestProfile(c), b) # {}) =>
          /\ ENABLED new_interest(c[1], c[2], b)
          /\ StepEnsures(new_interest(c[1], c[2], b),
                /\ resp'.status = 401
                /\ resp'.error = IF Cardinality(ActiveRows(RequestProfile(c))) >= 3
                                 THEN MaxIssuesError ELSE AlreadyInterestedError
                /\ interests' \subseteq interests
                /\ pending' = pending)

\* C2 witness: the already-expressed rejection has been given, nothing was
\* deleted, and a profile holds exactly one row on some bounty.
C2_Witness ==
    /\ resp.handler = "new_interest"
    /\ resp.error = AlreadyInterestedError
    /\ resp.deleted = 0
    /\ \E p \in Profiles, b \in Bounties : Cardinality(RowsOn(p, b)) = 1

\* C9: new_interest and remove_interest without a session profile and
\* without a valid token answer 401 with the authentication error and leave
\* the Interest rows, the bounty links and the UserAction rows unchanged.
C9_UnauthenticatedNoEffect ==
    \A c \in Credentials, b \in BountyIds :
       (resp = NoResp /\ c[1] = NoProfile /\ c[2] \notin Profiles) =>
          /\ ENABLED new_interest(c[1], c[2], b)
          /\ ENABLED remove_interest(c[1], c[2], b)
          /\ StepEnsures(new_interest(c[1], c[2], b) \/ remove_interest(c[1], c[2], b),
                /\ resp'.status = 401
                /\ resp'.error = AuthError
                /\ interests' = interests
                /\ interested' = interested
                /\ user_actions' = user_actions)

\* C9 witness: the authentication error has been given while Interest and
\* UserAction rows exist.
C9_Witness ==
    /\ resp.handler \in {"new_interest", "remove_interest"}
    /\ resp.error = AuthError
    /\ interests # {}
    /\ user_actions # EmptyBag

\* The row of a set of Interest rows that was created last.
NewestOf(rows) == CHOOSE r \in rows : \A q \in rows : q.created >= r.created => q = r

\* C10: when new_interest looks up the Interest of the profile on the bounty
\* (the cap is not reached) and finds two or more rows, it deletes all of
\* them but the one created last, so that exactly one row of the pair is
\* left, leaves every other row alone, creates none and answers 401 with the
\* already-expressed error.
C10_DuplicatesRepaired ==
    \A c \in Credentials, b \in Bounties :
       (/\ resp = NoResp
        /\ RequestProfile(c) # NoProfile
        /\ Cardinality(ActiveRows(RequestProfile(c))) < 3
        /\ Cardinality(RowsOn(RequestProfile(c), b)) >= 2) =>
          /\ ENABLED new_interest(c[1], c[2], b)
          /\ StepEnsures(new_interest(c[1], c[2], b),
                /\ interests' = (interests \ RowsOn(RequestProfile(c), b))
                                   \cup {NewestOf(RowsOn(RequestProfile(c), b))}
                /\ interested' = { l \in interested : \E i \in interests' : i.id = l[2] }
                /\ Cardinality({ i \in interests' :
                                   /\ i.profile_id = RequestProfile(c)
                                   /\ <<b, i.id>> \in interested' }) = 1
                /\ next_pk' = next_pk
                /\ pending' = pending
                /\ resp'.status = 401
                /\ resp'.error = AlreadyInterestedError)

\* C10 witness: the already-expressed rejection has been given by a
\* new_interest that deleted rows, and a row older than one that is left is
\* gone.
C10_Witness ==
    /\ resp.handler = "new_interest"
    /\ resp.error = AlreadyInterestedError
    /\ resp.deleted >= 1
    /\ \E i \in interests : \E k \in 1..(i.id - 1) : \A j \in interests : j.id # k

\* ------------------------------------------------------------------------
\* Properties of unclaiming
\* ------------------------------------------------------------------------
\* C11: remove_interest of an authenticated profile on an existing bounty
\* answers success and leaves no Interest row of the pair, whether the pair
\* had one row or several, and leaves every other row alone; when the pair
\* had no row it answers 401 and changes no Interest row.
C11_RemoveClearsPair ==
    \A c \in Credentials, b \in Bounties :
       (resp = NoResp /\ RequestProfile(c) # NoProfile) =>
          /\ ENABLED remove_interest(c[1], c[2], b)
          /\ StepEnsures(remove_interest(c[1], c[2], b),
                IF RowsOn(RequestProfile(c), b) = {}
                THEN /\ resp'.status = 401
                     /\ resp'.success # "true"
                     /\ interests' = interests
                     /\ interested' = interested
                ELSE /\ resp'.status = 200
                     /\ resp'.success = "true"
                     /\ interests' = interests \ RowsOn(RequestProfile(c), b)
                     /\ interested' = { l \in interested : \E i \in interests' : i.id = l[2] }
                     /\ ~ \E i \in interests' :
                            i.profile_id = RequestProfile(c) /\ <<b, i.id>> \in interested')

\* C11 witness: remove_interest answered success after deleting two or more
\* rows, and other rows are still there.
C11_Witness ==
    /\ resp.handler = "remove_interest"
    /\ resp.success = "true"
    /\ resp.deleted >= 2
    /\ interests # {}

\* C14: every failure response of new_interest and remove_interest (no
\* session profile, no such bounty, cap reached, already claimed, nothing to
\* unclaim) has HTTP status 401 and a JSON body with an 'error' field and
\* success = false.
C14_FailuresCarryErrorAndSuccess ==
    (resp.handler \in {"new_interest", "remove_interest"} /\ resp.success # "true") =>
       /\ resp.status = 401
       /\ resp.error # Absent
       /\ resp.success = "false"

\* C16: from no Interest rows, with the bounties' statuses fixed and the
\* new_interest and remove_interest requests handled one at a time, no
\* profile has more than 3 Interest rows on current bounties that are open or
\* started, and no (profile, bounty) pair has more than one row.
C16_SerialCapAndUniqueness ==
    /\ \A p \in Profiles : Cardinality(ActiveRows(p)) <= 3
    /\ \A p \in Profiles, b \in Bounties : Cardinality(RowsOn(p, b)) <= 1

\* C16 witness: a profile with three active rows was refused a fourth on an
\* active bounty it has no row on, after a claim had been given up.
C16_Witness ==
    /\ resp.handler = "new_interest"
    /\ resp.error = MaxIssuesError
    /\ \E p \in Profiles :
          /\ Cardinality(ActiveRows(p)) = 3
          /\ \E b \in Bounties :
                /\ bounties[b].current_bounty
                /\ bounties[b].idx_status \in {"open", "started"}
                /\ RowsOn(p, b) = {}
    /\ \E a \in BagToSet(user_actions) : a.action = "stop_work"

\* C17: uninterested deletes or unlinks an Interest row only when the
\* session has a profile, the bounty exists and the session's profile is the
\* funder of the bounty, and then only rows of the named profile on that
\* bounty; in every other case it answers 401 and leaves the Interest rows
\* and the bounty links unchanged.
C17_OnlyFunderRemoves ==
    \A sp \in SessionProfiles, b \in BountyIds, p \in Profiles :
       resp = NoResp =>
          /\ ENABLED uninterested(sp, b, p)
          /\ StepEnsures(uninterested(sp, b, p),
                IF sp # NoProfile /\ b \in Bounties /\ bounties[b].funder = sp
                THEN /\ interests' \subseteq interests
                     /\ interested' \subseteq interested
                     /\ interests \ interests' \subseteq RowsOn(p, b)
                     /\ \A l \in interested \ interested' :
                           l[1] = b /\ \E i \in RowsOn(p, b) : i.id = l[2]
                ELSE /\ resp'.status = 401
                     /\ interests' = interests
                     /\ interested' = interested)

\* C17 witness: a profile that is not the funder of a bounty was refused
\* while the bounty has Interest rows.
C17_Witness ==
    /\ resp.handler = "uninterested"
    /\ resp.status = 401
    /\ resp.error = OnlyFundersError
    /\ \E b \in Bounties, p \in Profiles : RowsOn(p, b) # {} /\ bounties[b].funder # p

\* C18: when the funder of a bounty calls uninterested for a profile that
\* has two or more Interest rows on the bounty, the handler removes all of
\* them and answers {'success': True}, as it does for a single row.
C18_DuplicatesRemovedNormally ==
    [][\A sp \in Profiles, b \in Bounties, p \in Profiles :
         (/\ bounties[b].funder = sp
          /\ Cardinality(RowsOn(p, b)) >= 2
          /\ uninterested(sp, b, p)) =>
            /\ resp'.status = 200
            /\ resp'.success = "true"
            /\ interests' = interests \ RowsOn(p, b)
      ]_vars

\* C19: the UserAction log only grows, every new_interest that answers
\* success adds exactly one 'start_work' row of the profile, and every
\* remove_interest that answers success adds exactly one 'stop_work' row of
\* the profile, also when it clears duplicate rows.
C19_ActionLogComplete ==
    [][/\ user_actions \sqsubseteq user_actions'
       /\ \A p \in Profiles, b \in Bounties :
             new_interest_create(p, b) =>
                \E a \in BagToSet(user_actions') :
                   /\ a.action = "start_work"
                   /\ a.profile = p
                   /\ user_actions' = user_actions (+) SetToBag({a})
       /\ \A c \in Credentials, b \in Bounties :
             (remove_interest(c[1], c[2], b) /\ resp'.success = "true") =>
                \E a \in BagToSet(user_actions') :
                   /\ a.action = "stop_work"
                   /\ a.profile = RequestProfile(c)
                   /\ user_actions' = user_actions (+) SetToBag({a})
      ]_vars

\* ------------------------------------------------------------------------
\* Properties of the coin redemption
\* ------------------------------------------------------------------------
\* The shortcodes for which a POST has succeeded: a transfer was sent and
\* the request row that records it exists.
Redeemed(shortcode) ==
    \E r \in coin_requests :
       /\ r.coin_redemption = shortcode
       /\ \E i \in 1..Len(broadcast) :
             broadcast[i].shortcode = shortcode /\ broadcast[i].txid = r.txid

\* C3 as stated: once a POST has succeeded for a shortcode, every POST for
\* it that arrives later is answered with status 'error' and message 'Bad
\* request', ends there, sends no transaction and creates no request row.
C3_LaterPostBadRequest ==
    [][\A w \in Workers, s \in Coins, a \in Addresses :
         (Redeemed(s) /\ redeem_coin_post(w, s, a)) =>
            /\ redeem'[w].pc = "done"
            /\ redeem'[w].resp.status = "error"
            /\ redeem'[w].resp.message = BadRequestMessage
            /\ broadcast' = broadcast
            /\ coin_requests' = coin_requests
      ]_vars

\* C3 amended: once a POST has succeeded for a shortcode, every POST for it
\* that arrives later ends without sending a transaction or creating a
\* request row; it is answered with status 'error' and message 'Bad request'
\* when its body gives a valid address, with status 'error' and the text of
\* the address exception when the address is not valid, and it fails with an
\* uncaught error when its body gives no address.
C3_LaterPostRejected ==
    \A w \in Workers, s \in Coins, a \in Addresses :
       (Redeemed(s) /\ redeem[w].pc = "idle") =>
          /\ ENABLED redeem_coin_post(w, s, a)
          /\ StepEnsures(redeem_coin_post(w, s, a),
                /\ redeem'[w].pc = "done"
                /\ redeem'[w].resp =
                      IF a = NoAddress THEN RedeemHttpError("http500")
                      ELSE IF a \in {"0xab", "0xAb"}
                           THEN RedeemJson("error", BadRequestMessage, 0)
                           ELSE RedeemJson("error", InvalidAddressMessage, 0)
                /\ broadcast' = broadcast
                /\ coin_requests' = coin_requests)

\* C3 witness: a POST for a redeemed shortcode was answered 'Bad request',
\* and one transfer was sent for the shortcode.
C3_Witness ==
    \E w \in Workers :
       /\ redeem[w].pc = "done"
       /\ redeem[w].shortcode \in Coins
       /\ redeem[w].resp.message = BadRequestMessage
       /\ Redeemed(redeem[w].shortcode)
       /\ Cardinality({ i \in 1..Len(broadcast) :
                          broadcast[i].shortcode = redeem[w].shortcode }) = 1

\* C4: at most one transfer is sent for a shortcode, however the POST
\* requests for it overlap.
C4_AtMostOneTransfer ==
    \A s \in Coins :
       Cardinality({ i \in 1..Len(broadcast) : broadcast[i].shortcode = s }) <= 1

\* C15: a GET of redeem_coin shows the state of the shortcode: 404 for a
\* shortcode no coin has, coin_status 'INITIAL' exactly when the coin has no
\* CoinRedemptionRequest, 'PENDING' with the recorded transaction id exactly
\* when it has one, and it writes nothing; no step deletes or changes a
\* CoinRedemptionRequest and a coin has at most one, so that a shortcode
\* shown 'PENDING' is never shown 'INITIAL' again.
C15_GetReflectsState ==
    [][/\ \A w \in Workers, s \in Shortcodes :
             redeem_coin_get(w, s) =>
                /\ redeem'[w].pc = "done"
                /\ coin_requests' = coin_requests
                /\ broadcast' = broadcast
                /\ redeem'[w].resp =
                      IF s \notin Coins THEN RedeemHttpError("http404")
                      ELSE IF \A r \in coin_requests : r.coin_redemption # s
                           THEN RedeemPage("INITIAL", 0)
                           ELSE RedeemPage("PENDING",
                                   (CHOOSE r \in coin_requests :
                                       r.coin_redemption = s).txid)
       /\ coin_requests \subseteq coin_requests'
       /\ \A r, q \in coin_requests' : r.coin_redemption = q.coin_redemption => r = q
       /\ \A w \in Workers :
             (redeem[w].resp.coin_status = "PENDING" /\ redeem[w].shortcode \in Coins) =>
                \A v \in Workers :
                   (redeem'[v].shortcode = redeem[w].shortcode /\ redeem'[v] # redeem[v]) =>
                      redeem'[v].resp.coin_status # "INITIAL"
      ]_vars

\* C15 witness: a GET showed 'PENDING' with the id of the transaction that
\* was sent for the shortcode, while another coin has no request row.
C15_Witness ==
    \E w \in Workers :
       /\ redeem[w].pc = "done"
       /\ redeem[w].resp.coin_status = "PENDING"
       /\ \E i \in 1..Len(broadcast) :
             /\ broadcast[i].shortcode = redeem[w].shortcode
             /\ broadcast[i].txid = redeem[w].resp.colo_txid
       /\ \E s \in Coins : \A r \in coin_requests : r.coin_redemption # s

\* C20: a POST that fails inside the handler's try block before a transfer
\* is sent (no coin has the shortcode, the address is not an address, or the
\* building, signing or sending raises) is answered with status 'error',
\* with message 'Bad request' when no coin has the shortcode and with the
\* text of the exception otherwise; it sends no transfer and creates no
\* request row, and a coin that has no request row can still be redeemed: a
\* POST for it with a valid address goes on to build the transfer.
C20_FailedPostLeavesRedeemable ==
    /\ \A w \in Workers, s \in Shortcodes, a \in Addresses \ {NoAddress} :
          (redeem[w].pc = "idle" /\ (s \notin Coins \/ a = "zz")) =>
             /\ ENABLED redeem_coin_post(w, s, a)
             /\ StepEnsures(redeem_coin_post(w, s, a),
                   /\ redeem'[w].pc = "done"
                   /\ redeem'[w].resp =
                         RedeemJson("error",
                                    IF s \notin Coins THEN BadRequestMessage
                                    ELSE InvalidAddressMessage, 0)
                   /\ broadcast' = broadcast
                   /\ coin_requests' = coin_requests)
    /\ \A w \in Workers :
          redeem[w].pc = "build" =>
             /\ ENABLED redeem_coin_send(w, TRUE)
             /\ StepEnsures(redeem_coin_send(w, TRUE),
                   /\ redeem'[w].pc = "done"
                   /\ redeem'[w].resp = RedeemJson("error", SendFailedMessage, 0)
                   /\ broadcast' = broadcast
                   /\ coin_requests' = coin_requests)
    /\ \A w \in Workers, s \in Coins, a \in {"0xab", "0xAb"} :
          (redeem[w].pc = "idle" /\ \A r \in coin_requests : r.coin_redemption # s) =>
             /\ ENABLED redeem_coin_post(w, s, a)
             /\ StepEnsures(redeem_coin_post(w, s, a),
                   /\ redeem'[w].pc = "build"
                   /\ redeem'[w].shortcode = s
                   /\ redeem'[w].address = "0xAb")

\* C20 witness: a POST for a coin ended with the text of the sending
\* exception, no transfer was sent for the coin and it has no request row.
C20_Witness ==
    \E w \in Workers :
       /\ redeem[w].pc = "done"
       /\ redeem[w].shortcode \in Coins
       /\ redeem[w].resp.message = SendFailedMessage
       /\ \A i \in 1..Len(broadcast) : broadcast[i].shortcode # redeem[w].shortcode
       /\ \A r \in coin_requests : r.coin_redemption # redeem[w].shortcode

\* ------------------------------------------------------------------------
\* Properties of the blockchain sync
\* ------------------------------------------------------------------------
\* C5: once the transaction is mined and the bounty id resolved,
\* web3_process_bounty is invoked at least once and at most 4 times in a
\* request, never again after an invocation that reported a change, and the
\* did_change of the response is the result of the last invocation.
C5_AttemptsBounded ==
    /\ Len(sync.calls) <= 4
    /\ \A i \in 1..(Len(sync.calls) - 1) : sync.calls[i] = FALSE
    /\ (sync.pc = "done" /\ sync.bounty_id \notin {NoBountyId, 0}) =>
          /\ Len(sync.calls) >= 1
          /\ sync.result.did_change = BoolText(sync.calls[Len(sync.calls)])
    /\ (sync.pc = "done" /\ sync.result.did_change # Absent) =>
          sync.bounty_id \notin {NoBountyId, 0}

\* C5 witness: a request ended after four invocations, the last of which
\* reported a change.
C5_Witness ==
    /\ sync.pc = "done"
    /\ sync.calls = <<FALSE, FALSE, FALSE, TRUE>>
    /\ sync.result.did_change = "true"

\* C6: when web3_process_bounty never reports a change, the loop ends after
\* exactly 4 attempts (a 5th is never started) and the handler returns
\* status '200', msg 'success' and did_change false.
C6_ExhaustedAfterFour ==
    (\A i \in 1..Len(sync.calls) : sync.calls[i] = FALSE) =>
       /\ sync.pc = "web3_process_bounty" => Len(sync.calls) < 4
       /\ sync.counter <= 4
       /\ (sync.pc = "done" /\ sync.bounty_id \notin {NoBountyId, 0}) =>
             /\ Len(sync.calls) = 4
             /\ sync.result = [status |-> "200", msg |-> "success", did_change |-> "false"]

\* C6 witness: a request ended after four invocations that reported no
\* change.
C6_Witness ==
    /\ sync.pc = "done"
    /\ sync.calls = <<FALSE, FALSE, FALSE, FALSE>>
    /\ sync.result.did_change = "false"

\* C12: a sync_web3 request pauses at most 3 times of 3 seconds, 9 seconds
\* in all, also when all 4 attempts fail.
C12_SleepsAtMostNineSeconds ==
    sync.slept <= 3 * SleepSeconds

\* C13: sync_web3 gates each step on the one before.  With a parameter
\* missing it ends at once with '400' 'bad request', and only with all three
\* given it goes on to has_tx_mined; a transaction that has not mined ends it
\* with '400' 'tx has not mined yet', a mined one leads to get_bounty_id; no
\* bounty id ends it with '400' 'could not find bounty id', a bounty id leads
\* to the loop.  web3_process_bounty has not been invoked before the loop nor
\* in a request that ends with '400'.
C13_StepsGated ==
    /\ \A u \in UrlParams, t \in TxidParams, n \in NetworkParams :
          sync.pc = "idle" =>
             /\ ENABLED sync_web3(u, t, n)
             /\ StepEnsures(sync_web3(u, t, n),
                   IF NoParam \in {u, t, n}
                   THEN /\ sync'.pc = "done"
                        /\ sync'.result = [status |-> "400", msg |-> "bad request",
                                           did_change |-> Absent]
                   ELSE "" \notin {u, t, n} => sync'.pc = "has_tx_mined")
    /\ sync.pc = "has_tx_mined" =>
          /\ ENABLED sync_has_tx_mined(FALSE)
          /\ StepEnsures(sync_has_tx_mined(FALSE),
                /\ sync'.pc = "done"
                /\ sync'.result = [status |-> "400", msg |-> "tx has not mined yet",
                                   did_change |-> Absent])
          /\ ENABLED sync_has_tx_mined(TRUE)
          /\ StepEnsures(sync_has_tx_mined(TRUE), sync'.pc = "get_bounty_id")
    /\ sync.pc = "get_bounty_id" =>
          /\ ENABLED sync_get_bounty_id(NoBountyId)
          /\ StepEnsures(sync_get_bounty_id(NoBountyId),
                /\ sync'.pc = "done"
                /\ sync'.result = [status |-> "400", msg |-> "could not find bounty id",
                                   did_change |-> Absent])
          /\ ENABLED sync_get_bounty_id(5)
          /\ StepEnsures(sync_get_bounty_id(5), sync'.pc = "while")
    /\ sync.pc \in {"idle", "has_tx_mined", "get_bounty_id"} => sync.calls = <<>>
    /\ (sync.pc = "done" /\ sync.result.status = "400") => sync.calls = <<>>
    /\ sync.pc = "web3_process_bounty" =>
          /\ NoParam \notin {sync.issue_url, sync.txid, sync.network}
          /\ sync.bounty_id # NoBountyId

\* C13 witness: a request with all three parameters ended with 'could not
\* find bounty id'.
C13_Witness ==
    /\ sync.pc = "done"
    /\ sync.result.msg = "could not find bounty id"
    /\ NoParam \notin {sync.issue_url, sync.txid, sync.network}
    /\ sync.calls = <<>>

\* ------------------------------------------------------------------------
\* Properties of the tool votes
\* ------------------------------------------------------------------------
\* The ToolVote rows of a profile on a tool.
VoteRows(p, t) == { v \in tool_votes : v.profile_id = p /\ <<t, v.id>> \in votes }

\* C7: a vote without a session profile and without a valid token is
\* answered 401 with the authentication error and creates no ToolVote row,
\* for every tool_id, also one that no Tool has.
C7_UnauthenticatedVoteRejected ==
    [][\A c \in Credentials, t \in ToolIds :
         (/\ c[1] = NoProfile
          /\ c[2] \notin Profiles
          /\ (vote_tool_up(c[1], c[2], t) \/ vote_tool_down(c[1], c[2], t))) =>
            /\ vote_resp'.status = 401
            /\ vote_resp'.error = AuthError
            /\ tool_votes' = tool_votes
            /\ votes' = votes
      ]_vars

\* C8: when votes are handled one after another from no votes, every
\* (profile, tool) pair has at most one ToolVote row and its value is +1 or
\* -1: a profile's first vote on a tool is stored with the value of the
\* handler, and every later vote of the profile on the tool is answered 401
\* 'You have already voted on this tool!' and changes no row.
C8_OneVotePerProfileTool ==
    /\ \A p \in Profiles, t \in Tools : Cardinality(VoteRows(p, t)) <= 1
    /\ \A v \in tool_votes :
          /\ v.value \in {1, -1}
          /\ \E p \in Profiles, t \in Tools : v \in VoteRows(p, t)
    /\ \A c \in Credentials, t \in Tools :
          (vote_resp = NoVoteResp /\ RequestProfile(c) # NoProfile) =>
             IF VoteRows(RequestProfile(c), t) = {}
             THEN /\ ENABLED vote_tool_up(c[1], c[2], t)
                  /\ ENABLED vote_tool_down(c[1], c[2], t)
                  /\ StepEnsures(vote_tool_up(c[1], c[2], t),
                        /\ vote_resp'.status = 200
                        /\ tool_votes \subseteq tool_votes'
                        /\ \E v \in tool_votes' \ tool_votes :
                              /\ v.value = 1
                              /\ tool_votes' = tool_votes \cup {v}
                              /\ votes' = votes \cup {<<t, v.id>>}
                              /\ v.profile_id = RequestProfile(c))
                  /\ StepEnsures(vote_tool_down(c[1], c[2], t),
                        /\ vote_resp'.status = 200
                        /\ \E v \in tool_votes' \ tool_votes :
                              /\ v.value = -1
                              /\ tool_votes' = tool_votes \cup {v}
                              /\ votes' = votes \cup {<<t, v.id>>}
                              /\ v.profile_id = RequestProfile(c))
             ELSE /\ ENABLED vote_tool_up(c[1], c[2], t)
                  /\ ENABLED vote_tool_down(c[1], c[2], t)
                  /\ StepEnsures(vote_tool_up(c[1], c[2], t) \/ vote_tool_down(c[1], c[2], t),
                        /\ vote_resp'.status = 401
                        /\ vote_resp'.error = AlreadyVotedError
                        /\ tool_votes' = tool_votes
                        /\ votes' = votes)

\* C8 witness: a vote was answered 'already voted' while an up vote and a
\* down vote are stored.
C8_Witness ==
    /\ vote_resp.error = AlreadyVotedError
    /\ \E u \in tool_votes, d \in tool_votes : u.value = 1 /\ d.value = -1

====
